---- MODULE Spec2Model ----
(***************************************************************************)
(* The chat turn handler of src/app.py (chat, chat.generate,               *)
(* chat.update_booking_details, extract_booking_data and the collaborators *)
(* it calls) as a state machine.                                           *)
(*                                                                         *)
(* Text is a sequence of lexical tokens, each a record [k, a, b] of        *)
(* strings:                                                                *)
(*   k = "w"   a word or a fixed phrase, a = its text                      *)
(*   k = "sp"  white space                                                 *)
(*   k = "m"   one of the three tag keywords, a = the keyword              *)
(*   k = "{", k = "}"   a brace                                            *)
(*   k = "kv"  one JSON member "a": b  (b = None is JSON null, b = "" is   *)
(*             the empty string)                                           *)
(*   k = "k"   the key "a": of a member whose value is the JSON object     *)
(*             that follows it                                             *)
(* A regular expression or a str method of the source is modelled by what  *)
(* it does on such a sequence.                                             *)
(***************************************************************************)
EXTENDS Integers, Sequences, FiniteSets, TLC

\* The number of requests (turns) a behaviour may start.
MaxTurns == 2

\* Python's None and JSON's null.
None == "None"

----------------------------------------------------------------------------
\* Tokens

Tok(k, a, b) == [k |-> k, a |-> a, b |-> b]
W(s) == Tok("w", s, "")
SP == Tok("sp", "", "")
LB == Tok("{", "", "")
RB == Tok("}", "", "")
KV(key, val) == Tok("kv", key, val)
K(key) == Tok("k", key, "")
FORM_UPDATE == Tok("m", "FORM_UPDATE:", "")
BOOKING_COMPLETE == Tok("m", "BOOKING_COMPLETE:", "")
UPDATE_COMPLETE == Tok("m", "UPDATE_COMPLETE:", "")

Min(S) == CHOOSE x \in S : \A y \in S : x <= y
Max(S) == CHOOSE x \in S : \A y \in S : x >= y

\* The element of a one-element set.  The({F(x) : x \in {e}}) is F(e) with e
\* evaluated once and held in x, as a local variable of the code holds it.
The(S) == CHOOSE x \in S : TRUE

\* str.find of one token: the first index, 0 when absent (Python's -1).
find(t, tok) ==
    LET at == {i \in DOMAIN t : t[i] = tok}
    IN  IF at = {} THEN 0 ELSE Min(at)

\* tok in t
Contains(t, tok) == find(t, tok) # 0

\* str.strip(): leading and trailing white space removed.
strip(t) ==
    LET solid == {i \in DOMAIN t : t[i] # SP}
    IN  IF solid = {} THEN <<>> ELSE SubSeq(t, Min(solid), Max(solid))

\* t.split(tok)[0]: the text before the first occurrence of tok, all of t
\* when tok does not occur.
split0(t, tok) ==
    IF find(t, tok) = 0 THEN t ELSE SubSeq(t, 1, find(t, tok) - 1)

\* Whether sub occurs in t at index i.
OccursAt(t, sub, i) ==
    /\ i >= 1
    /\ i + Len(sub) - 1 <= Len(t)
    /\ SubSeq(t, i, i + Len(sub) - 1) = sub

\* str.replace(sub, ""): every non-overlapping occurrence of sub removed,
\* scanning from the left; from[i] is the result for the text from index i.
replace(t, sub) ==
    LET from[i \in 1..(Len(t) + 1)] ==
            IF i > Len(t) THEN <<>>
            ELSE IF OccursAt(t, sub, i) THEN from[i + Len(sub)]
            ELSE <<t[i]>> \o from[i + 1]
    IN  IF sub = <<>> THEN t ELSE from[1]

\* str.lower() of the text of a token: the tag keywords are upper case, the
\* words and phrases of the model are written in lower case except the ones
\* listed here.
lower(s) ==
    CASE s = "BOOKING_COMPLETE:" -> "booking_complete:"
      [] s = "UPDATE_COMPLETE:" -> "update_complete:"
      [] s = "FORM_UPDATE:" -> "form_update:"
      [] s = "Thanks" -> "thanks"
      [] s = "Name and Email" -> "name and email"
      [] OTHER -> s

\* phrase in text.lower(), for a phrase that is one whole token of the model.
InLower(t, phrase) == \E i \in DOMAIN t : lower(t[i].a) = phrase

----------------------------------------------------------------------------
\* Regular expressions and JSON

NoMatch == [found |-> FALSE, start |-> 0, open |-> 0, close |-> 0]

\* The index of the first token after index i that satisfies: not white
\* space (solid) / equal to tok; 0 when there is none.
FirstSolidAfter(t, i) ==
    LET solid == {j \in DOMAIN t : j > i /\ t[j] # SP}
    IN  IF solid = {} THEN 0 ELSE Min(solid)
FirstAfter(t, i, tok) ==
    LET at == {j \in DOMAIN t : j > i /\ t[j] = tok}
    IN  IF at = {} THEN 0 ELSE Min(at)

\* Where the "{" of a tag whose keyword is at index i stands: right after
\* the keyword, or, with \s*, after the white space that follows it.
OpenAfter(t, i, ws) ==
    IF ws
    THEN IF FirstSolidAfter(t, i) # 0 /\ t[FirstSolidAfter(t, i)] = LB
         THEN FirstSolidAfter(t, i) ELSE 0
    ELSE IF i + 1 <= Len(t) /\ t[i + 1] = LB THEN i + 1 ELSE 0

\* The match that starts at the keyword at index i.
MatchAt(t, i, open) ==
    [found |-> TRUE, start |-> i, open |-> open,
     close |-> FirstAfter(t, open, RB)]

\* re.search(marker + r'\s*({.*?})', t, re.DOTALL) when ws, and
\* re.search(marker + r'({.*?})', t) when not ws: the leftmost marker that is
\* followed (after white space, if ws) by "{" and later by some "}"; the
\* lazy .*? ends the group at the first "}" after the "{".
TagSearch(t, marker, ws) ==
    The({IF hits = {} THEN NoMatch
         ELSE MatchAt(t, Min(hits), OpenAfter(t, Min(hits), ws)) :
            hits \in {{i \in DOMAIN t :
                          /\ t[i] = marker
                          /\ OpenAfter(t, i, ws) # 0
                          /\ FirstAfter(t, OpenAfter(t, i, ws), RB) # 0}}})

\* The index of the "}" that closes the "{" at index open, tracking the
\* nesting depth as the loops of methods 3 and 4 do; 0 when none closes it.
\* scan[i, brace_count] is the loop at index i with that depth.
brace_scan(t, open) ==
    LET scan[i \in 1..(Len(t) + 1), brace_count \in 0..Len(t)] ==
            IF i > Len(t) THEN 0
            ELSE IF t[i] = LB THEN scan[i + 1, brace_count + 1]
            ELSE IF t[i] = RB
                 THEN IF brace_count - 1 = 0 THEN i
                      ELSE scan[i + 1, brace_count - 1]
            ELSE scan[i + 1, brace_count]
    IN  scan[open, 0]

\* The nesting depth at index i: the braces opened and not closed before it.
Depth(t, i) ==
    Cardinality({j \in 1..(i - 1) : t[j] = LB})
        - Cardinality({j \in 1..(i - 1) : t[j] = RB})

\* Whether json.loads accepts the text: "{", members, "}", where the value
\* of a member may itself be such an object.  A word between the braces, a
\* brace that is not the value of a key, or a "{" that is never closed is a
\* JSONDecodeError.
JsonValid(t) ==
    /\ Len(t) >= 2
    /\ t[1] = LB
    /\ t[Len(t)] = RB
    /\ brace_scan(t, 1) = Len(t)
    /\ \A i \in 2..(Len(t) - 1) :
          /\ t[i].k \in {"kv", "k", "{", "}"}
          /\ t[i].k = "k" => t[i + 1] = LB
          /\ t[i] = LB => t[i - 1].k = "k"

\* The value json.loads gives a key whose value is an object.
NestedObject == "{...}"

\* json.loads of a valid text: the dict, as a function from the keys of the
\* outer object to their values; a repeated key keeps its last value.
json_loads(t) ==
    LET members == {i \in DOMAIN t : t[i].k \in {"kv", "k"} /\ Depth(t, i) = 1}
        keys == {t[i].a : i \in members}
        last(key) == Max({i \in members : t[i].a = key})
    IN  [key \in keys |->
            IF t[last(key)].k = "k" THEN NestedObject ELSE t[last(key)].b]

EmptyDict == [key \in {} |-> None]

\* What extract_booking_data returns on an unusable text: (None, None).
NoData == [data |-> EmptyDict, op |-> None]

\* return json.loads(text), op  --  a JSONDecodeError is caught by the
\* function's handler, which returns (None, None).
LoadsAs(t, op) ==
    IF JsonValid(t) THEN [data |-> json_loads(t), op |-> op] ELSE NoData

NotFound == [found |-> FALSE, text |-> <<>>]

\* From the first "{" of json_part to the "}" that matches it.
BalancedIn(json_part, json_start) ==
    IF json_start = 0 \/ brace_scan(json_part, json_start) = 0
    THEN NotFound
    ELSE [found |-> TRUE,
          text |-> SubSeq(json_part, json_start,
                          brace_scan(json_part, json_start))]

\* Methods 3 and 4: the text after the first occurrence of the marker,
\* stripped; from its first "{" to the matching "}".
FlexibleSearch(t, marker) ==
    IF find(t, marker) = 0 THEN NotFound
    ELSE The({BalancedIn(json_part, find(json_part, LB)) :
                 json_part \in {strip(SubSeq(t, find(t, marker) + 1, Len(t)))}})

\* The first member named key strictly between from and e; 0 if none.
KeyAfter(t, from, e, key) ==
    LET at == {i \in DOMAIN t : /\ from # 0 /\ i > from /\ i < e
                                /\ t[i].k = "kv" /\ t[i].a = key}
    IN  IF at = {} THEN 0 ELSE Min(at)

\* Whether the members between the braces at b and e name the four keys in
\* the order name, email, phone, timing.
Ordered(t, b, e) ==
    KeyAfter(t, KeyAfter(t, KeyAfter(t, KeyAfter(t, b, e, "name"),
                                     e, "email"), e, "phone"),
             e, "timing") # 0

\* Method 5:  \{[^}]*"name"[^}]*"email"[^}]*"phone"[^}]*"timing"[^}]*\}
\* the leftmost "{" whose text up to the next "}" names the four keys in
\* this order.
AnyJsonSearch(t) ==
    LET hits == {b \in DOMAIN t :
                    /\ t[b] = LB
                    /\ FirstAfter(t, b, RB) # 0
                    /\ Ordered(t, b, FirstAfter(t, b, RB))}
    IN  IF hits = {} THEN NotFound
        ELSE [found |-> TRUE,
              text |-> SubSeq(t, Min(hits), FirstAfter(t, Min(hits), RB))]

\* The text of a match of methods 1 and 2.
Group1(t, match) == SubSeq(t, match.open, match.close)

\* Methods 3, 4 and 5, reached when neither regular expression of methods
\* 1 and 2 matches.
Fallbacks(t, m3, m4, m5) ==
    IF m3.found THEN LoadsAs(m3.text, "booking")
    ELSE IF m4.found THEN LoadsAs(m4.text, "update")
    ELSE IF m5.found THEN LoadsAs(m5.text, "booking")
    ELSE NoData

Methods(t, m1, m2) ==
    IF m1.found THEN LoadsAs(Group1(t, m1), "booking")
    ELSE IF m2.found THEN LoadsAs(Group1(t, m2), "update")
    ELSE The({Fallbacks(t, m3, m4, m5) :
                 m3 \in {FlexibleSearch(t, BOOKING_COMPLETE)},
                 m4 \in {FlexibleSearch(t, UPDATE_COMPLETE)},
                 m5 \in {AnyJsonSearch(t)}})

\* extract_booking_data: the five methods in order; the first that finds a
\* text decides, also when json.loads then rejects that text.
extract_booking_data(bot_response_full) ==
    The({Methods(bot_response_full, m1, m2) :
            m1 \in {TagSearch(bot_response_full, BOOKING_COMPLETE, TRUE)},
            m2 \in {TagSearch(bot_response_full, UPDATE_COMPLETE, TRUE)}})

----------------------------------------------------------------------------
\* Inputs: what a request carries and what the collaborators answer

\* The ids uuid.uuid4() returns for a request without an X-Session-ID header
\* (None), and the headers the clients of the model send.
Uuids == {"u1", "u2", "u3"}
Headers == {"s1"}

\* The 'message' field of a request body; None is a body without one.
Messages == {None, "   ", "Thanks", "what services do you offer"}

\* str.strip() and str.lower() of a message.
strip_message(m) == IF m = "   " THEN "" ELSE m
lower_message(m) ==
    CASE m = "Thanks" -> "thanks"
      [] m = "I want to book an appointment" -> "i want to book an appointment"
      [] m = "Yes" -> "yes"
      [] OTHER -> m

casual_messages ==
    {"thank you", "thanks", "great", "ok", "okay", "perfect", "awesome",
     "cool", "nice", "good", "excellent", "wonderful", "amazing",
     "appreciate", "got it", "understood", "alright", "all right",
     "no need", "no problem", "sounds good", "no need thanks",
     "no need thank you"}

affirmative_messages ==
    {"yes", "yep", "yeah", "ok", "okay", "sure", "go ahead", "please do",
     "yeah, go ahead"}

\* The entries of casual_messages that are substrings of a (lower-case)
\* message of the model.
CasualIn(m) ==
    CASE m = "thanks" -> {"thanks"}
      [] m = "i want to book an appointment" -> {"ok"}
      [] m = "what does a booking cost" -> {"ok"}
      [] OTHER -> {}

\* Field values the generative model puts into a tag.
Alice == "Alice"
AliceMail == "alice@x.com"
Phone == "12345678"
Friday == "Friday 2 PM"
Monday == "Monday 10 AM"

Tag(marker, members) == <<marker, LB>> \o members \o <<RB>>

FourFields ==
    <<KV("name", Alice), KV("email", AliceMail), KV("phone", Phone),
      KV("timing", Friday)>>
UpdateFields ==
    <<KV("name", Alice), KV("email", AliceMail), KV("phone", Phone),
      KV("new_timing", Monday)>>

\* Texts the generative model returns (non-empty ones).
Outputs ==
    { <<W("sure")>>,
      <<W("Name and Email")>>,
      <<W("sure"), SP>>
          \o Tag(FORM_UPDATE, <<KV("name", Alice), KV("email", AliceMail)>>),
      <<W("got it")>>
          \o Tag(FORM_UPDATE, <<KV("name", Alice), KV("email", AliceMail)>>)
          \o <<SP, W("phone number")>>,
      <<W("sure"), SP>> \o Tag(FORM_UPDATE, <<KV("name", None), KV("email", "")>>),
      <<W("sure"), SP>> \o <<FORM_UPDATE, LB, W("oops"), RB>>,
      <<W("sure"), SP>> \o Tag(FORM_UPDATE, FourFields) \o <<SP>>
          \o Tag(BOOKING_COMPLETE, FourFields),
      <<W("sure"), SP>> \o Tag(BOOKING_COMPLETE, FourFields),
      <<W("sure"), SP>> \o Tag(BOOKING_COMPLETE, <<KV("name", "Bob")>>),
      <<W("sure"), SP, BOOKING_COMPLETE, LB, KV("name", "Bob")>>,
      <<W("sure"), SP>> \o Tag(UPDATE_COMPLETE, UpdateFields),
      <<W("sure"), SP>> \o Tag(BOOKING_COMPLETE, <<KV("name", "Bob")>>)
          \o <<SP>> \o Tag(UPDATE_COMPLETE, UpdateFields),
      <<W("sure"), SP>> \o Tag(FORM_UPDATE, <<KV("phone", Phone)>>)
          \o <<SP>> \o Tag(BOOKING_COMPLETE, <<KV("name", "Bob")>>),
      <<W("sure"), SP>>
          \o Tag(FORM_UPDATE, <<KV("name", Alice), KV("company", "Acme")>>),
      <<W("sure"), SP>>
          \o Tag(FORM_UPDATE, <<KV("name", Alice), KV("email", AliceMail)>>)
          \o <<SP>> \o Tag(BOOKING_COMPLETE, FourFields) }

\* The joined text of the stream of one call of model.generate_content
\* that does not raise: a text, or nothing but white space.
ModelTexts == Outputs \cup {<<>>, <<SP>>}

\* What match_documents meets: documents, no match, an embedding or
\* database error.
SearchOutcomes == {"docs", "empty", "error"}

\* What store_appointment_and_send_emails meets: stored and mailed, stored
\* but the mail failed, a database error.
StoreOutcomes == {"mailed", "stored", "db_error"}

----------------------------------------------------------------------------
\* State

VARIABLES
    appointment_sessions, \* session id -> the session object it names
    objects,              \* the session objects ever created, by identity
    turns,                \* requests started so far
    pc,                   \* where the request in progress stands
    session_id,           \* its session id
    session,              \* its local 'session': an object identity, 0 none
    user_message,         \* its stripped message
    attempt,              \* the retry loop's index
    bot_response_full,    \* the model's text
    context_string,       \* the retrieved context of the prompt
    bot_entry,            \* the bot text the code appends after its yield
    events,               \* what the request has delivered to the caller
    store_calls,          \* its calls of store_appointment_and_send_emails
    search_calls,         \* its calls of match_documents
    model_calls,          \* its calls of model.generate_content
    before,               \* the session object as the request found it
    rival,                \* the locals of the request of the other thread
    admin,                \* the answer of the last session-management request
    raised,               \* the request's calls of the model that raised
    now,                  \* the server's clock: weekday (Monday 0) and hour
    time_slots            \* the slots the request offers in its prompt

vars ==
    <<appointment_sessions, objects, turns, pc, session_id, session,
      user_message, attempt, bot_response_full, context_string, bot_entry,
      events, store_calls, search_calls, model_calls, before, rival, admin,
      raised, now, time_slots>>

\* Python truthiness of a field value.
Truthy(v) == v # None /\ v # ""

EmptyDetails ==
    [name |-> None, email |-> None, phone |-> None, timing |-> None]

\* user_details is None (<<>>) or one dict (<<dict>>).
NoDetails == <<>>

\* The session object chat() creates on the first reference of an id.
NewSession ==
    [history |-> <<>>,
     user_details |-> NoDetails,
     last_appointment_timing |-> None,
     booking_details |-> EmptyDetails]

NoContext == "No relevant information found."

\* The locals of a thread that has no request yet.
IdleLocals ==
    [pc |-> "idle", session_id |-> None, session |-> 0, user_message |-> None,
     attempt |-> 0, bot_response_full |-> <<>>, context_string |-> NoContext,
     bot_entry |-> <<>>, events |-> <<>>, store_calls |-> <<>>,
     search_calls |-> 0, model_calls |-> 0, before |-> NewSession,
     raised |-> 0, time_slots |-> <<>>]

\* The answer of /api/clear-session or /api/debug-sessions, with the
\* request's session id and the session map as the handler found and left
\* it; NoAdmin when no such request has been made.
AdminAnswer(op, id, success, message, count, details, found, left) ==
    [op |-> op, session_id |-> id, success |-> success,
     message |-> message, count |-> count, details |-> details,
     map_before |-> found, map_after |-> left]

NoSessions == [id \in {} |-> 0]

NoAdmin ==
    AdminAnswer("none", None, FALSE, "", 0, NoSessions, NoSessions, NoSessions)

Init ==
    /\ rival = IdleLocals
    /\ admin = NoAdmin
    /\ appointment_sessions = [id \in {} |-> 0]
    /\ objects = <<>>
    /\ turns = 0
    /\ pc = "idle"
    /\ session_id = None
    /\ session = 0
    /\ user_message = None
    /\ attempt = 0
    /\ bot_response_full = <<>>
    /\ context_string = NoContext
    /\ bot_entry = <<>>
    /\ events = <<>>
    /\ store_calls = <<>>
    /\ search_calls = 0
    /\ model_calls = 0
    /\ raised = 0
    /\ now = [weekday |-> 0, hour |-> 10]
    /\ time_slots = <<>>
    /\ before = NewSession

\* A JSON line of generate(), or the JSON body chat() returns at once:
\* with_id tells whether the line has a 'session_id' key.
ResponseEvent(text, with_id) ==
    [type |-> "response", text |-> text, is_final |-> TRUE,
     with_id |-> with_id]
ErrorEvent(error) ==
    [type |-> "error", text |-> <<W(error)>>, is_final |-> FALSE,
     with_id |-> FALSE]

\* The line as the caller receives it from the request with session id id.
Yield(event, id) ==
    [type |-> event.type, text |-> event.text, is_final |-> event.is_final,
     session_id |-> IF event.with_id THEN id ELSE None]

----------------------------------------------------------------------------
\* chat(): the request is read, the session is fetched or created

\* A variant of chat() that creates the session before it looks at the
\* message.  It is not part of Next; C12 must tell it from Chat.
ChatCreatesFirst(message, header) ==
    /\ pc \in {"idle", "done"}
    /\ UNCHANGED <<rival, admin, now>>
    /\ time_slots' = <<>>
    /\ turns < MaxTurns
    /\ turns' = turns + 1
    /\ attempt' = 0
    /\ bot_response_full' = <<>>
    /\ context_string' = NoContext
    /\ bot_entry' = <<>>
    /\ store_calls' = <<>>
    /\ search_calls' = 0
    /\ model_calls' = 0
    /\ raised' = 0
    /\ LET msg == IF message = None THEN "" ELSE strip_message(message)
           id == IF header = None
                 THEN CHOOSE u \in Uuids : u \notin DOMAIN appointment_sessions
                 ELSE header
       IN  /\ header = None =>
                \E u \in Uuids : u \notin DOMAIN appointment_sessions
           /\ user_message' = msg
           /\ IF msg = ""
              THEN /\ events' = <<Yield(ErrorEvent("Message is required"), None)>>
                   /\ pc' = "done"
                   /\ session_id' = None
                   /\ session' = 0
                   /\ before' = NewSession
                   /\ IF id \notin DOMAIN appointment_sessions
                      THEN /\ objects' = Append(objects, NewSession)
                           /\ appointment_sessions' =
                                [k \in DOMAIN appointment_sessions \cup {id} |->
                                    IF k = id THEN Len(objects) + 1
                                    ELSE appointment_sessions[k]]
                      ELSE UNCHANGED <<appointment_sessions, objects>>
              ELSE /\ events' = <<>>
                   /\ pc' = "gate"
                   /\ session_id' = id
                   /\ IF id \notin DOMAIN appointment_sessions
                      THEN /\ objects' = Append(objects, NewSession)
                           /\ appointment_sessions' =
                                [k \in DOMAIN appointment_sessions \cup {id} |->
                                    IF k = id THEN Len(objects) + 1
                                    ELSE appointment_sessions[k]]
                           /\ session' = Len(objects) + 1
                           /\ before' = NewSession
                      ELSE /\ session' = appointment_sessions[id]
                           /\ before' = objects[appointment_sessions[id]]
                           /\ UNCHANGED <<appointment_sessions, objects>>

Chat(message, header) ==
    /\ pc \in {"idle", "done"}
    /\ UNCHANGED <<rival, admin, now>>
    /\ time_slots' = <<>>
    /\ turns < MaxTurns
    /\ turns' = turns + 1
    /\ attempt' = 0
    /\ bot_response_full' = <<>>
    /\ context_string' = NoContext
    /\ bot_entry' = <<>>
    /\ store_calls' = <<>>
    /\ search_calls' = 0
    /\ model_calls' = 0
    /\ raised' = 0
    /\ LET msg == IF message = None THEN "" ELSE strip_message(message)
           id == IF header = None
                 THEN CHOOSE u \in Uuids : u \notin DOMAIN appointment_sessions
                 ELSE header
       IN  /\ header = None =>
                \E u \in Uuids : u \notin DOMAIN appointment_sessions
           /\ user_message' = msg
           /\ IF msg = ""
              THEN /\ events' = <<Yield(ErrorEvent("Message is required"), None)>>
                   /\ pc' = "done"
                   /\ session_id' = None
                   /\ session' = 0
                   /\ before' = NewSession
                   /\ UNCHANGED <<appointment_sessions, objects>>
              ELSE /\ events' = <<>>
                   /\ pc' = "gate"
                   /\ session_id' = id
                   /\ IF id \notin DOMAIN appointment_sessions
                      THEN /\ objects' = Append(objects, NewSession)
                           /\ appointment_sessions' =
                                [k \in DOMAIN appointment_sessions \cup {id} |->
                                    IF k = id THEN Len(objects) + 1
                                    ELSE appointment_sessions[k]]
                           /\ session' = Len(objects) + 1
                           /\ before' = NewSession
                      ELSE /\ session' = appointment_sessions[id]
                           /\ before' = objects[appointment_sessions[id]]
                           /\ UNCHANGED <<appointment_sessions, objects>>

----------------------------------------------------------------------------
\* generate_time_slots(): the appointment slots offered in the prompt

start_hour == 9
end_hour == 20

Weekdays == 0..6
Hours == 0..23

\* datetime.weekday() counts from Monday; strftime("%A") names the day.
DayName(weekday) ==
    <<"Monday", "Tuesday", "Wednesday", "Thursday", "Friday", "Saturday",
      "Sunday">>[weekday + 1]

Slot(day_name, hour, minute) ==
    [day |-> day_name, hour |-> hour, minute |-> minute]

\* for hour in range(from, to): the slots hour:00 and hour:30.
HalfHours(day_name, from, to) ==
    IF to <= from THEN <<>>
    ELSE [i \in 1..(2 * (to - from)) |->
             Slot(day_name, from + ((i - 1) \div 2),
                  IF i % 2 = 1 THEN 0 ELSE 30)]

\* slots[:n]
First(slots, n) == SubSeq(slots, 1, Min({n, Len(slots)}))

\* The day after weekday, Monday when that is a Sunday.
NextWorkingDay(weekday) ==
    IF (weekday + 1) % 7 = 6 THEN 0 ELSE (weekday + 1) % 7

\* The last branch: when today has fewer than 4 slots left and tomorrow is
\* not a Sunday, tomorrow's first slots are added until there are 6 (the
\* loop stops at 6, which is what slots[:6] keeps).
WithTomorrow(slots, weekday) ==
    IF Len(slots) < 4 /\ (weekday + 1) % 7 # 6
    THEN slots \o HalfHours(DayName((weekday + 1) % 7), start_hour,
                            Min({start_hour + ((6 - Len(slots)) \div 2) + 1,
                                 end_hour}))
    ELSE slots

\* A variant of generate_time_slots that, on a Saturday evening, offers the
\* slots of the next day.  It is not part of Next; C34 must tell it from
\* generate_time_slots.
generate_time_slots_no_skip(weekday, hour) ==
    IF weekday = 6
    THEN First(HalfHours("Monday", start_hour,
                         Min({start_hour + 6, end_hour})), 6)
    ELSE IF hour >= 18
    THEN First(HalfHours(DayName((weekday + 1) % 7), start_hour,
                         Min({start_hour + 6, end_hour})), 6)
    ELSE First(WithTomorrow(HalfHours("Today",
                                      Max({hour + 1, start_hour}), end_hour),
                            weekday), 6)

generate_time_slots(weekday, hour) ==
    IF weekday = 6
    THEN First(HalfHours("Monday", start_hour,
                         Min({start_hour + 6, end_hour})), 6)
    ELSE IF hour >= 18
    THEN First(HalfHours(DayName(NextWorkingDay(weekday)), start_hour,
                         Min({start_hour + 6, end_hour})), 6)
    ELSE First(WithTomorrow(HalfHours("Today",
                                      Max({hour + 1, start_hour}), end_hour),
                            weekday), 6)

----------------------------------------------------------------------------
\* generate(): the retrieval decision and the retrieval

\* session['history'][-1].get('bot', ''), '' when there is no history.
LastBot(history) ==
    IF history = <<>> THEN <<>> ELSE history[Len(history)].bot

\* The booking flag: the last bot text asked for details and is not a
\* completed or failed booking.
booking_in_progress(history) ==
    LET last_bot_message == LastBot(history)
    IN  /\ history # <<>>
        /\ \/ InLower(last_bot_message, "name and email")
           \/ InLower(last_bot_message, "phone number")
           \/ InLower(last_bot_message, "preferred timing")
        /\ ~InLower(last_bot_message, "booking_complete:")
        /\ ~InLower(last_bot_message, "update_complete:")
        /\ ~InLower(last_bot_message, "almost there")

\* A variant of should_search without the rule of the agreement.  It is
\* not part of Next; C30 must tell it from should_search.
should_search_casual_only(sess, message) ==
    LET last_bot_message == LastBot(sess.history)
        user_msg_lower == lower_message(message)
        was_recent_booking ==
            InLower(last_bot_message,
                    "appointment request has been submitted successfully")
        was_recent_update ==
            InLower(last_bot_message,
                    "appointment timing has been updated successfully")
        casual ==
            /\ sess.user_details # NoDetails
            /\ was_recent_booking \/ was_recent_update
            /\ CasualIn(user_msg_lower) \cap casual_messages # {}
        agreed ==
            /\ sess.history # <<>>
            /\ InLower(last_bot_message, "connect you with our team")
            /\ user_msg_lower \in affirmative_messages
    IN  ~casual

\* should_search after both of its rules: the acknowledgement after a
\* booking or an update, and the agreement to be connected with the team.
should_search(sess, message) ==
    LET last_bot_message == LastBot(sess.history)
        user_msg_lower == lower_message(message)
        was_recent_booking ==
            InLower(last_bot_message,
                    "appointment request has been submitted successfully")
        was_recent_update ==
            InLower(last_bot_message,
                    "appointment timing has been updated successfully")
        casual ==
            /\ sess.user_details # NoDetails
            /\ was_recent_booking \/ was_recent_update
            /\ CasualIn(user_msg_lower) \cap casual_messages # {}
        agreed ==
            /\ sess.history # <<>>
            /\ InLower(last_bot_message, "connect you with our team")
            /\ user_msg_lower \in affirmative_messages
    IN  ~casual /\ ~agreed

\* if not booking_in_progress and should_search
Searches(sess, message) ==
    ~booking_in_progress(sess.history) /\ should_search(sess, message)

\* match_documents: the rows found, [] on no match and on every error.
match_documents(outcome) == IF outcome = "docs" THEN <<"doc">> ELSE <<>>

\* A variant of the retrieval that reports an error of the embedding or
\* the database to the caller and ends the turn.  It is not part of Next;
\* C33 must tell it from Retrieve.
RetrieveSurfacesError(outcome) ==
    /\ pc = "gate"
    /\ UNCHANGED <<rival, admin, raised, now>>
    /\ time_slots' = generate_time_slots(now.weekday, now.hour)
    /\ IF Searches(objects[session], user_message)
       THEN /\ search_calls' = search_calls + 1
            /\ context_string' =
                 IF match_documents(outcome) # <<>> THEN "documents"
                 ELSE NoContext
            /\ IF outcome = "error"
               THEN /\ pc' = "done"
                    /\ events' =
                         Append(events,
                                Yield(ErrorEvent("Search failed"), session_id))
               ELSE /\ pc' = "model"
                    /\ UNCHANGED events
       ELSE /\ outcome = "empty"
            /\ pc' = "model"
            /\ UNCHANGED <<search_calls, context_string, events>>
    /\ UNCHANGED <<appointment_sessions, objects, turns, session_id, session,
                   user_message, attempt, bot_response_full, bot_entry,
                   store_calls, model_calls, before>>

Retrieve(outcome) ==
    /\ pc = "gate"
    /\ UNCHANGED <<rival, admin, raised, now>>
    /\ time_slots' = generate_time_slots(now.weekday, now.hour)
    /\ pc' = "model"
    /\ IF Searches(objects[session], user_message)
       THEN /\ search_calls' = search_calls + 1
            /\ context_string' =
                 IF match_documents(outcome) # <<>> THEN "documents"
                 ELSE NoContext
       ELSE /\ outcome = "empty"
            /\ UNCHANGED <<search_calls, context_string>>
    /\ UNCHANGED <<appointment_sessions, objects, turns, session_id, session,
                   user_message, attempt, bot_response_full, bot_entry,
                   events, store_calls, model_calls, before>>

\* The handler of generate() for an exception raised while the prompt is
\* put together: one error event, and the generator ends.
PromptError ==
    /\ pc = "gate"
    /\ UNCHANGED <<rival, admin, raised, now, time_slots>>
    /\ pc' = "done"
    /\ events' =
         Append(events,
                Yield(ErrorEvent("Sorry, I encountered an issue. Please try again."),
                      session_id))
    /\ UNCHANGED <<appointment_sessions, objects, turns, session_id, session,
                   user_message, attempt, bot_response_full, context_string,
                   bot_entry, store_calls, search_calls, model_calls, before>>

----------------------------------------------------------------------------
\* generate(): the model call and its retries

max_retries == 3

fallback_response ==
    <<W("I apologize, but I'm having trouble processing your request right now.")>>

\* A variant of the retry loop without the return after the fallback event:
\* the last failed attempt falls through to the tag handling.  It is not
\* part of Next; C10 must tell it from ModelAttempt.
ModelAttemptNoReturn(outcome, text) ==
    /\ pc = "model"
    /\ UNCHANGED <<rival, admin, now>>
    /\ attempt < max_retries
    /\ model_calls' = model_calls + 1
    /\ raised' = (IF outcome = "raise" THEN raised + 1 ELSE raised)
    /\ IF outcome = "raise"
       THEN /\ text = <<>>
            /\ IF attempt = max_retries - 1
               THEN /\ events' =
                         Append(events,
                                Yield(ResponseEvent(fallback_response, FALSE),
                                      session_id))
                    /\ bot_entry' = fallback_response
                    /\ pc' = "dispatch"
                    /\ context_string' = NoContext
                    /\ time_slots' = <<>>
                    /\ UNCHANGED attempt
               ELSE /\ attempt' = attempt + 1
                    /\ UNCHANGED <<events, bot_entry, pc, context_string,
                                   time_slots>>
            /\ UNCHANGED bot_response_full
       ELSE /\ bot_response_full' = text
            /\ IF strip(text) # <<>> \/ attempt = max_retries - 1
               THEN /\ pc' = "dispatch"
                    /\ context_string' = NoContext
                    /\ time_slots' = <<>>
                    /\ UNCHANGED attempt
               ELSE /\ attempt' = attempt + 1
                    /\ UNCHANGED <<pc, context_string,
                                   time_slots>>
            /\ UNCHANGED <<events, bot_entry>>
    /\ UNCHANGED <<appointment_sessions, objects, turns, session_id, session,
                   user_message, store_calls, search_calls, before>>

\* A variant of the retry loop without the break after a text that is not
\* blank: the loop always makes its three calls.  It is not part of Next;
\* C24 must tell it from ModelAttempt.
ModelAttemptNoBreak(outcome, text) ==
    /\ pc = "model"
    /\ UNCHANGED <<rival, admin, now>>
    /\ attempt < max_retries
    /\ model_calls' = model_calls + 1
    /\ raised' = (IF outcome = "raise" THEN raised + 1 ELSE raised)
    /\ IF outcome = "raise"
       THEN /\ text = <<>>
            /\ IF attempt = max_retries - 1
               THEN /\ events' =
                         Append(events,
                                Yield(ResponseEvent(fallback_response, FALSE),
                                      session_id))
                    /\ bot_entry' = fallback_response
                    /\ pc' = "yielded"
                    /\ context_string' = NoContext
                    /\ time_slots' = <<>>
                    /\ UNCHANGED attempt
               ELSE /\ attempt' = attempt + 1
                    /\ UNCHANGED <<events, bot_entry, pc, context_string,
                                   time_slots>>
            /\ UNCHANGED bot_response_full
       ELSE /\ bot_response_full' = text
            /\ IF attempt = max_retries - 1
               THEN /\ pc' = "dispatch"
                    /\ context_string' = NoContext
                    /\ time_slots' = <<>>
                    /\ UNCHANGED attempt
               ELSE /\ attempt' = attempt + 1
                    /\ UNCHANGED <<pc, context_string,
                                   time_slots>>
            /\ UNCHANGED <<events, bot_entry>>
    /\ UNCHANGED <<appointment_sessions, objects, turns, session_id, session,
                   user_message, store_calls, search_calls, before>>

\* A variant that yields the apology and records an empty bot text for the
\* history.  It is not part of Next; C25 must tell it from ModelAttempt.
ModelAttemptForgetsApology(outcome, text) ==
    /\ pc = "model"
    /\ UNCHANGED <<rival, admin, now>>
    /\ attempt < max_retries
    /\ model_calls' = model_calls + 1
    /\ raised' = (IF outcome = "raise" THEN raised + 1 ELSE raised)
    /\ IF outcome = "raise"
       THEN /\ text = <<>>
            /\ IF attempt = max_retries - 1
               THEN /\ events' =
                         Append(events,
                                Yield(ResponseEvent(fallback_response, FALSE),
                                      session_id))
                    /\ bot_entry' = <<>>
                    /\ pc' = "yielded"
                    /\ context_string' = NoContext
                    /\ time_slots' = <<>>
                    /\ UNCHANGED attempt
               ELSE /\ attempt' = attempt + 1
                    /\ UNCHANGED <<events, bot_entry, pc, context_string,
                                   time_slots>>
            /\ UNCHANGED bot_response_full
       ELSE /\ bot_response_full' = text
            /\ IF strip(text) # <<>> \/ attempt = max_retries - 1
               THEN /\ pc' = "dispatch"
                    /\ context_string' = NoContext
                    /\ time_slots' = <<>>
                    /\ UNCHANGED attempt
               ELSE /\ attempt' = attempt + 1
                    /\ UNCHANGED <<pc, context_string,
                                   time_slots>>
            /\ UNCHANGED <<events, bot_entry>>
    /\ UNCHANGED <<appointment_sessions, objects, turns, session_id, session,
                   user_message, store_calls, search_calls, before>>

\* One pass of the retry loop.  full_prompt, and with it context_string,
\* is not read after the loop: the model drops it when the loop is left.
ModelAttempt(outcome, text) ==
    /\ pc = "model"
    /\ UNCHANGED <<rival, admin, now>>
    /\ attempt < max_retries
    /\ model_calls' = model_calls + 1
    /\ raised' = (IF outcome = "raise" THEN raised + 1 ELSE raised)
    /\ IF outcome = "raise"
       THEN /\ text = <<>>
            /\ IF attempt = max_retries - 1
               THEN /\ events' =
                         Append(events,
                                Yield(ResponseEvent(fallback_response, FALSE),
                                      session_id))
                    /\ bot_entry' = fallback_response
                    /\ pc' = "yielded"
                    /\ context_string' = NoContext
                    /\ time_slots' = <<>>
                    /\ UNCHANGED attempt
               ELSE /\ attempt' = attempt + 1
                    /\ UNCHANGED <<events, bot_entry, pc, context_string,
                                   time_slots>>
            /\ UNCHANGED bot_response_full
       ELSE /\ bot_response_full' = text
            /\ IF strip(text) # <<>> \/ attempt = max_retries - 1
               THEN /\ pc' = "dispatch"
                    /\ context_string' = NoContext
                    /\ time_slots' = <<>>
                    /\ UNCHANGED attempt
               ELSE /\ attempt' = attempt + 1
                    /\ UNCHANGED <<pc, context_string,
                                   time_slots>>
            /\ UNCHANGED <<events, bot_entry>>
    /\ UNCHANGED <<appointment_sessions, objects, turns, session_id, session,
                   user_message, store_calls, search_calls, before>>

----------------------------------------------------------------------------
\* generate(): the tags of the model's text are applied

BookingKeys == {"name", "email", "phone", "timing"}
UpdateKeys == {"name", "email", "phone", "new_timing"}

\* A variant of the loop without its test 'key in booking_details': every
\* key of the payload is stored.  It is not part of Next; C21 must tell it
\* from MergeDetails.
MergeAllKeys(booking_details, update_data) ==
    [key \in DOMAIN booking_details \cup DOMAIN update_data |->
        IF key \in DOMAIN update_data THEN update_data[key]
        ELSE booking_details[key]]

\* The loop of update_booking_details over update_data.items(): a key of
\* booking_details takes the payload's value, other keys are skipped.
MergeDetails(booking_details, update_data) ==
    [key \in DOMAIN booking_details |->
        IF key \in DOMAIN update_data THEN update_data[key]
        ELSE booking_details[key]]

\* A variant that removes the tag from the text and leaves the form as it
\* was.  It is not part of Next; C22 must tell it from ApplyFormTag.
ApplyFormTagTextOnly(booking_details, response_text, group0, group1) ==
    IF JsonValid(group1)
    THEN [details |-> booking_details,
          text |-> strip(replace(response_text, group0))]
    ELSE [details |-> booking_details, text |-> response_text]

\* The tag found: its JSON is merged and every occurrence of its text is
\* removed (return response_text.replace(match.group(0), "").strip()).
ApplyFormTag(booking_details, response_text, group0, group1) ==
    IF JsonValid(group1)
    THEN [details |-> MergeDetails(booking_details, json_loads(group1)),
          text |-> strip(replace(response_text, group0))]
    ELSE [details |-> booking_details, text |-> response_text]

FormTagAt(booking_details, response_text, match) ==
    IF match.found
    THEN ApplyFormTag(booking_details, response_text,
                      SubSeq(response_text, match.start, match.close),
                      SubSeq(response_text, match.open, match.close))
    ELSE [details |-> booking_details, text |-> response_text]

\* update_booking_details: the first FORM_UPDATE tag is parsed and merged
\* and its text removed; a text without a tag, or with a tag json.loads
\* rejects, comes back as it is.
update_booking_details(booking_details, response_text) ==
    The({FormTagAt(booking_details, response_text, match) :
            match \in {TagSearch(response_text, FORM_UPDATE, FALSE)}})

\* store_appointment_and_send_emails: (success, message).  Every exception
\* of the database is caught and reported as (False, message).
store_appointment_and_send_emails(outcome, is_update) ==
    CASE outcome = "mailed" ->
            [success |-> TRUE,
             message |-> IF is_update
                         THEN "Appointment update confirmation email sent successfully!"
                         ELSE "Confirmation email sent successfully!"]
      [] outcome = "stored" ->
            [success |-> TRUE,
             message |-> IF is_update THEN "Appointment updated successfully!"
                         ELSE "Appointment booked successfully!"]
      [] OTHER ->
            [success |-> FALSE,
             message |-> "There was an issue processing your appointment."]

\* A call of store_appointment_and_send_emails: its arguments, the success
\* it returned, and the slots the session held when it was made.
StoreCall(name, email, phone, timing, is_update, old_timing, success, slots) ==
    [name |-> name, email |-> email, phone |-> phone, timing |-> timing,
     is_update |-> is_update, old_timing |-> old_timing,
     success |-> success, slots |-> slots]

\* The four confirmation texts of generate().
UpdateConfirmation(success, booking_data, old_timing, message) ==
    IF success
    THEN <<W("appointment timing has been updated successfully"),
           W(booking_data["new_timing"])>>
         \o (IF Truthy(old_timing) THEN <<W("previous time"), W(old_timing)>>
             ELSE <<>>)
         \o <<W(booking_data["email"]), W(booking_data["name"])>>
    ELSE <<W("appointment timing updated"), W(booking_data["name"]),
           W(booking_data["new_timing"]), SP, W(message)>>

BookingConfirmation(success, booking_data, message) ==
    IF success
    THEN <<W("appointment request has been submitted successfully"),
           W(booking_data["email"]), W(booking_data["timing"]),
           W(booking_data["name"])>>
    ELSE <<W("appointment details received"), W(booking_data["name"]),
           W(booking_data["timing"]), SP, W(message)>>

\* The message of the handler of a failed tag.
error_message(is_update_attempt) ==
    <<W("almost there"),
      W(IF is_update_attempt THEN "contact us directly to update"
        ELSE "contact us directly to book")>>

\* A variant that keeps the form's slots instead of the payload.  It is not
\* part of Next; C5 must tell it from CompleteBooking.
CompleteBookingFromSlots(sess, booking_data) ==
    [sess EXCEPT
        !.user_details = <<[name |-> sess.booking_details["name"],
                            email |-> sess.booking_details["email"],
                            phone |-> sess.booking_details["phone"]]>>,
        !.last_appointment_timing = sess.booking_details["timing"]]

\* What the session keeps of a stored booking (lines 741-743).
CompleteBooking(sess, booking_data) ==
    [sess EXCEPT
        !.user_details = <<[name |-> booking_data["name"],
                            email |-> booking_data["email"],
                            phone |-> booking_data["phone"]]>>,
        !.last_appointment_timing = booking_data["timing"]]

\* What the session keeps of an update (line 700).
CompleteUpdate(sess, booking_data, success) ==
    [sess EXCEPT !.last_appointment_timing = booking_data["new_timing"]]

\* The four ways generate() ends a turn whose model call returned: each
\* gives the new session object, the final event, the bot text for the
\* history and the store calls made.

\* No control marker in the text (lines 780-783).
PlainTurn(merged, text, user_facing_response) ==
    [sess |-> merged,
     event |-> ResponseEvent(user_facing_response, TRUE),
     bot |-> text,
     calls |-> <<>>]

\* A complete UPDATE_COMPLETE payload (lines 688-727).
UpdateTurn(merged, text, booking_data, old_timing, result) ==
    [sess |-> CompleteUpdate(merged, booking_data, result.success),
     event |-> ResponseEvent(
         UpdateConfirmation(result.success, booking_data, old_timing,
                            result.message), TRUE),
     bot |-> strip(split0(text, UPDATE_COMPLETE)),
     calls |-> <<StoreCall(booking_data["name"], booking_data["email"],
                           booking_data["phone"], booking_data["new_timing"],
                           TRUE, old_timing, result.success,
                           merged.booking_details)>>]

\* A variant that records the booking in the session whatever the call
\* returned.  It is not part of Next; C15 must tell it from BookingTurn.
BookingTurnAlwaysRecords(merged, text, booking_data, result) ==
    [sess |-> CompleteBooking(merged, booking_data),
     event |-> ResponseEvent(
         BookingConfirmation(result.success, booking_data, result.message),
         TRUE),
     bot |-> strip(split0(text, BOOKING_COMPLETE)),
     calls |-> <<StoreCall(booking_data["name"], booking_data["email"],
                           booking_data["phone"], booking_data["timing"],
                           FALSE, None, result.success,
                           merged.booking_details)>>]

\* A variant that calls store_appointment_and_send_emails again when the
\* first call failed.  It is not part of Next; C20 must tell it from
\* BookingTurn.
BookingTurnCallsAgain(merged, text, booking_data, result) ==
    [sess |-> IF result.success THEN CompleteBooking(merged, booking_data)
              ELSE merged,
     event |-> ResponseEvent(
         BookingConfirmation(result.success, booking_data, result.message),
         TRUE),
     bot |-> strip(split0(text, BOOKING_COMPLETE)),
     calls |-> LET call == StoreCall(booking_data["name"],
                                     booking_data["email"],
                                     booking_data["phone"],
                                     booking_data["timing"], FALSE, None,
                                     result.success, merged.booking_details)
               IN  IF result.success THEN <<call>> ELSE <<call, call>>]

\* A complete BOOKING_COMPLETE payload (lines 731-765).
BookingTurn(merged, text, booking_data, result) ==
    [sess |-> IF result.success THEN CompleteBooking(merged, booking_data)
              ELSE merged,
     event |-> ResponseEvent(
         BookingConfirmation(result.success, booking_data, result.message),
         TRUE),
     bot |-> strip(split0(text, BOOKING_COMPLETE)),
     calls |-> <<StoreCall(booking_data["name"], booking_data["email"],
                           booking_data["phone"], booking_data["timing"],
                           FALSE, None, result.success,
                           merged.booking_details)>>]

\* A variant of the handler that empties the form.  It is not part of
\* Next; C16 must tell it from FailedTurn.
FailedTurnWipes(merged, bot_response_user_part, is_update_attempt) ==
    [sess |-> [merged EXCEPT !.booking_details = EmptyDetails],
     event |-> ResponseEvent(
         bot_response_user_part \o <<SP>> \o error_message(is_update_attempt),
         FALSE),
     bot |-> bot_response_user_part,
     calls |-> <<>>]

\* The handler of a failed tag (lines 771-779).
FailedTurn(merged, bot_response_user_part, is_update_attempt) ==
    [sess |-> merged,
     event |-> ResponseEvent(
         bot_response_user_part \o <<SP>> \o error_message(is_update_attempt),
         FALSE),
     bot |-> bot_response_user_part,
     calls |-> <<>>]

\* A variant that always takes the session's last timing.  It is not part
\* of Next; C28 must tell it from OldTiming.
OldTimingOfSession(sess, booking_data) == sess.last_appointment_timing

\* booking_data.get('old_timing', session.get('last_appointment_timing', ..))
OldTiming(sess, booking_data) ==
    IF "old_timing" \in DOMAIN booking_data THEN booking_data["old_timing"]
    ELSE sess.last_appointment_timing

\* Lines 684-779: the branch the extracted payload selects.
Branch(merged, text, booking_data, op, outcome) ==
    IF op = "update" /\ booking_data # EmptyDict
    THEN IF UpdateKeys \subseteq DOMAIN booking_data
         THEN UpdateTurn(merged, text, booking_data,
                         OldTiming(merged, booking_data),
                         store_appointment_and_send_emails(outcome, TRUE))
         ELSE FailedTurn(merged, strip(split0(text, UPDATE_COMPLETE)), TRUE)
    ELSE IF op = "booking" /\ booking_data # EmptyDict
            /\ BookingKeys \subseteq DOMAIN booking_data
    THEN BookingTurn(merged, text, booking_data,
                     store_appointment_and_send_emails(outcome, FALSE))
    ELSE IF Contains(text, UPDATE_COMPLETE)
    THEN FailedTurn(merged, strip(split0(text, UPDATE_COMPLETE)), TRUE)
    ELSE FailedTurn(merged, strip(split0(text, BOOKING_COMPLETE)), FALSE)

\* Lines 681-783 once update_booking_details has run.
AfterFormUpdate(sess, text, updated, outcome) ==
    IF Contains(text, BOOKING_COMPLETE) \/ Contains(text, UPDATE_COMPLETE)
    THEN The({Branch(merged, text, extracted.data, extracted.op, outcome) :
                 merged \in {[sess EXCEPT !.booking_details = updated.details]},
                 extracted \in {extract_booking_data(text)}})
    ELSE PlainTurn([sess EXCEPT !.booking_details = updated.details], text,
                   updated.text)

\* The turn from the model's text to the final event.
Apply(sess, text, outcome) ==
    The({AfterFormUpdate(sess, text, updated, outcome) :
            updated \in {update_booking_details(sess.booking_details, text)}})

Dispatch(outcome) ==
    /\ pc = "dispatch"
    /\ UNCHANGED <<rival, admin, raised, now, time_slots>>
    /\ pc' = "yielded"
    /\ \E applied \in {Apply(objects[session], bot_response_full, outcome)} :
           /\ applied.calls # <<>> \/ outcome = "mailed"
           /\ objects' = [objects EXCEPT ![session] = applied.sess]
           /\ events' = Append(events, Yield(applied.event, session_id))
           /\ bot_entry' = applied.bot
           /\ store_calls' = store_calls \o applied.calls
    /\ UNCHANGED <<appointment_sessions, turns, session_id, session,
                   user_message, attempt, bot_response_full, context_string,
                   search_calls, model_calls, before>>

\* A variant of Resume that records the turn only when the bot text is not
\* blank.  It is not part of Next; C36 must tell it from Resume.
ResumeSkipsBlank ==
    /\ pc = "yielded"
    /\ UNCHANGED <<rival, admin, raised, now, time_slots>>
    /\ pc' = "done"
    /\ objects' = [objects EXCEPT
                     ![session].history =
                        IF strip(bot_entry) = <<>> THEN @
                        ELSE Append(@, [user |-> user_message,
                                        bot |-> bot_entry])]
    /\ UNCHANGED <<appointment_sessions, turns, session_id, session,
                   user_message, attempt, bot_response_full, context_string,
                   bot_entry, events, store_calls, search_calls, model_calls,
                   before>>

\* The generator is resumed after its final yield and appends the turn to
\* the history.
Resume ==
    /\ pc = "yielded"
    /\ UNCHANGED <<rival, admin, raised, now, time_slots>>
    /\ pc' = "done"
    /\ objects' = [objects EXCEPT
                     ![session].history =
                        Append(@, [user |-> user_message, bot |-> bot_entry])]
    /\ UNCHANGED <<appointment_sessions, turns, session_id, session,
                   user_message, attempt, bot_response_full, context_string,
                   bot_entry, events, store_calls, search_calls, model_calls,
                   before>>

----------------------------------------------------------------------------

\* The steps over given sets of messages, headers and model texts.
NextOver(messages, headers, texts) ==
    \/ \E message \in messages, header \in headers : Chat(message, header)
    \/ \E outcome \in SearchOutcomes : Retrieve(outcome)
    \/ PromptError
    \/ \E text \in texts : ModelAttempt("text", text)
    \/ ModelAttempt("raise", <<>>)
    \/ \E outcome \in StoreOutcomes : Dispatch(outcome)
    \/ Resume

Next == NextOver(Messages, Headers, ModelTexts)

Spec == Init /\ [][Next]_vars

\* One text of the model for each way generate() ends a turn: white space
\* only, plain text, a form tag, a booking, an update, a tag that fails.
LiveTexts ==
    { <<>>,
      <<W("sure")>>,
      <<W("sure"), SP>>
          \o Tag(FORM_UPDATE, <<KV("name", Alice), KV("email", AliceMail)>>),
      <<W("sure"), SP>> \o Tag(BOOKING_COMPLETE, FourFields),
      <<W("sure"), SP>> \o Tag(UPDATE_COMPLETE, UpdateFields),
      <<W("sure"), SP>> \o Tag(BOOKING_COMPLETE, <<KV("name", "Bob")>>) }

LiveNext == NextOver(Messages, Headers, LiveTexts)

\* A step of the request in progress.  The server runs generate() to its
\* end once the request is accepted, and each external call returns.
TurnStep ==
    \/ \E outcome \in SearchOutcomes : Retrieve(outcome)
    \/ PromptError
    \/ \E text \in LiveTexts : ModelAttempt("text", text)
    \/ ModelAttempt("raise", <<>>)
    \/ \E outcome \in StoreOutcomes : Dispatch(outcome)
    \/ Resume

FairSpec == Init /\ [][LiveNext]_vars /\ WF_vars(TurnStep)

\* The scenarios of a booking conversation: requests with and without an
\* X-Session-ID header, a booking request and an acknowledgement, and a
\* model that asks for details, notes the phone number, completes the
\* booking, or emits an incomplete payload.
BookingRequest == "I want to book an appointment"
ScenarioMessages == {BookingRequest, "Thanks"}
ScenarioHeaders == {None, "s1"}
ScenarioTexts ==
    { <<W("Name and Email")>>,
      <<W("sure"), SP>> \o Tag(FORM_UPDATE, <<KV("phone", Phone)>>),
      <<W("sure"), SP>> \o Tag(BOOKING_COMPLETE, FourFields),
      <<W("sure"), SP>> \o Tag(BOOKING_COMPLETE, <<KV("name", "Bob")>>) }

ScenarioNext == NextOver(ScenarioMessages, ScenarioHeaders, ScenarioTexts)

ScenarioSpec == Init /\ [][ScenarioNext]_vars

----------------------------------------------------------------------------
\* Two requests at once.  The server handles each request in a thread of its
\* own; the threads share appointment_sessions and the session objects.  The
\* variables pc .. before are the locals of the thread that runs, rival
\* holds the locals of the other thread, and Switch hands the processor
\* over.  Between threads the statements of chat() are steps of their own.

\* chat(), lines 551-563: the request is read and the session id looked up.
Receive(message, header) ==
    /\ pc \in {"idle", "done"}
    /\ turns < MaxTurns
    /\ header = None => \E u \in Uuids : u \notin DOMAIN appointment_sessions
    /\ turns' = turns + 1
    /\ attempt' = 0
    /\ bot_response_full' = <<>>
    /\ context_string' = NoContext
    /\ bot_entry' = <<>>
    /\ store_calls' = <<>>
    /\ search_calls' = 0
    /\ model_calls' = 0
    /\ raised' = 0
    /\ session' = 0
    /\ before' = NewSession
    /\ user_message' = (IF message = None THEN "" ELSE strip_message(message))
    /\ IF user_message' = ""
       THEN /\ events' = <<Yield(ErrorEvent("Message is required"), None)>>
            /\ pc' = "done"
            /\ session_id' = None
       ELSE /\ events' = <<>>
            /\ session_id' =
                 (IF header = None
                  THEN CHOOSE u \in Uuids : u \notin DOMAIN appointment_sessions
                  ELSE header)
            /\ pc' = IF session_id' \notin DOMAIN appointment_sessions
                     THEN "create" ELSE "fetch"
    /\ time_slots' = <<>>
    /\ UNCHANGED <<appointment_sessions, objects, rival, admin, now>>

\* A variant of Create that gives every session id the one session object
\* made first.  It is not part of Next; C37 must tell it from Create.
CreateShared ==
    /\ pc = "create"
    /\ pc' = "fetch"
    /\ objects' = IF objects = <<>> THEN <<NewSession>> ELSE objects
    /\ appointment_sessions' =
          [k \in DOMAIN appointment_sessions \cup {session_id} |->
              IF k = session_id THEN 1 ELSE appointment_sessions[k]]
    /\ UNCHANGED <<turns, session_id, session, user_message, attempt,
                   bot_response_full, context_string, bot_entry, events,
                   store_calls, search_calls, model_calls, before, rival,
                   admin, raised, now, time_slots>>

\* Lines 564-569: appointment_sessions[session_id] = {...}
Create ==
    /\ pc = "create"
    /\ pc' = "fetch"
    /\ objects' = Append(objects, NewSession)
    /\ appointment_sessions' =
          [k \in DOMAIN appointment_sessions \cup {session_id} |->
              IF k = session_id THEN Len(objects) + 1
              ELSE appointment_sessions[k]]
    /\ UNCHANGED <<turns, session_id, session, user_message, attempt,
                   bot_response_full, context_string, bot_entry, events,
                   store_calls, search_calls, model_calls, before, rival,
                   admin, raised, now, time_slots>>

\* Line 570: session = appointment_sessions[session_id]
Fetch ==
    /\ pc = "fetch"
    /\ session_id \in DOMAIN appointment_sessions
    /\ pc' = "gate"
    /\ session' = appointment_sessions[session_id]
    /\ before' = objects[appointment_sessions[session_id]]
    /\ UNCHANGED <<appointment_sessions, objects, turns, session_id,
                   user_message, attempt, bot_response_full, context_string,
                   bot_entry, events, store_calls, search_calls, model_calls,
                   rival, admin, raised, now, time_slots>>

\* The locals of the thread that runs.
Locals ==
    [pc |-> pc, session_id |-> session_id, session |-> session,
     user_message |-> user_message, attempt |-> attempt,
     bot_response_full |-> bot_response_full,
     context_string |-> context_string, bot_entry |-> bot_entry,
     events |-> events, store_calls |-> store_calls,
     search_calls |-> search_calls, model_calls |-> model_calls,
     before |-> before, raised |-> raised,
     time_slots |-> time_slots]

\* The other thread runs.
Switch ==
    /\ rival' = Locals
    /\ pc' = rival.pc
    /\ session_id' = rival.session_id
    /\ session' = rival.session
    /\ user_message' = rival.user_message
    /\ attempt' = rival.attempt
    /\ bot_response_full' = rival.bot_response_full
    /\ context_string' = rival.context_string
    /\ bot_entry' = rival.bot_entry
    /\ events' = rival.events
    /\ store_calls' = rival.store_calls
    /\ search_calls' = rival.search_calls
    /\ model_calls' = rival.model_calls
    /\ raised' = rival.raised
    /\ time_slots' = rival.time_slots
    /\ before' = rival.before
    /\ UNCHANGED <<appointment_sessions, objects, turns, admin, now>>

\* Two clients of one session: the same header, plain answers and a form tag.
ThreadTexts ==
    { <<W("sure")>>,
      <<W("sure"), SP>>
          \o Tag(FORM_UPDATE, <<KV("name", Alice), KV("email", AliceMail)>>) }

ThreadNext ==
    \/ \E message \in {"Thanks"}, header \in Headers : Receive(message, header)
    \/ Create
    \/ Fetch
    \/ \E outcome \in SearchOutcomes : Retrieve(outcome)
    \/ PromptError
    \/ \E text \in ThreadTexts : ModelAttempt("text", text)
    \/ ModelAttempt("raise", <<>>)
    \/ \E outcome \in StoreOutcomes : Dispatch(outcome)
    \/ Resume
    \/ Switch

ThreadSpec == Init /\ [][ThreadNext]_vars

----------------------------------------------------------------------------
\* Session management: /api/clear-session and /api/debug-sessions

\* The bodies of a clear request: no JSON at all (get_json raises), JSON
\* without 'session_id', and JSON with a 'session_id' that is the empty
\* string, a known id or an unknown id.
ClearBodies ==
    { [json |-> FALSE, session_id |-> None],
      [json |-> TRUE, session_id |-> None],
      [json |-> TRUE, session_id |-> ""],
      [json |-> TRUE, session_id |-> "s1"],
      [json |-> TRUE, session_id |-> "s9"] }

\* del appointment_sessions[id]
Without(map, id) == [k \in DOMAIN map \ {id} |-> map[k]]

\* clear_session(): 'if session_id:' tests the truth of the id, so that an
\* empty string goes the way of a missing one.
clear_session(data) ==
    /\ pc \in {"idle", "done"}
    /\ IF ~data.json
       THEN /\ admin' = AdminAnswer("clear", None, FALSE,
                                    "Error clearing session", 0, NoSessions,
                                    appointment_sessions, appointment_sessions)
            /\ UNCHANGED appointment_sessions
       ELSE IF Truthy(data.session_id)
       THEN IF data.session_id \in DOMAIN appointment_sessions
            THEN /\ appointment_sessions' =
                       Without(appointment_sessions, data.session_id)
                 /\ admin' = AdminAnswer("clear", data.session_id, TRUE,
                                         "Session cleared", 0, NoSessions,
                                         appointment_sessions,
                                         appointment_sessions')
            ELSE /\ admin' = AdminAnswer("clear", data.session_id, FALSE,
                                         "Session not found", 0, NoSessions,
                                         appointment_sessions,
                                         appointment_sessions)
                 /\ UNCHANGED appointment_sessions
       ELSE /\ appointment_sessions' = NoSessions
            /\ admin' = AdminAnswer("clear", data.session_id, TRUE,
                                    "All sessions cleared", 0, NoSessions,
                                    appointment_sessions, NoSessions)
    /\ UNCHANGED <<objects, turns, pc, session_id, session, user_message,
                   attempt, bot_response_full, context_string, bot_entry,
                   events, store_calls, search_calls, model_calls, before,
                   rival, raised, now, time_slots>>

\* One entry of session_details.
SessionDetail(session_data) ==
    [history_count |-> Len(session_data.history),
     has_user_details |-> session_data.user_details # NoDetails,
     last_appointment_timing |-> session_data.last_appointment_timing,
     user_details |-> session_data.user_details]

\* debug_sessions(): the number of sessions and a summary of each.
debug_sessions ==
    /\ pc \in {"idle", "done"}
    /\ admin' = AdminAnswer("debug", None, TRUE, "",
                            Cardinality(DOMAIN appointment_sessions),
                            [id \in DOMAIN appointment_sessions |->
                                SessionDetail(objects[appointment_sessions[id]])],
                            appointment_sessions, appointment_sessions)
    /\ UNCHANGED <<appointment_sessions, objects, turns, pc, session_id,
                   session, user_message, attempt, bot_response_full,
                   context_string, bot_entry, events, store_calls,
                   search_calls, model_calls, before, rival,
                   raised, now, time_slots>>

\* Clients that name their session, one of them with an empty header value,
\* and an operator who clears and inspects the sessions between requests.
AdminHeaders == {"", "s1"}
AdminTexts == { <<W("sure")>> }

AdminNext ==
    \/ NextOver({"Thanks"}, AdminHeaders, AdminTexts)
    \/ \E data \in ClearBodies : clear_session(data)
    \/ debug_sessions

AdminSpec == Init /\ [][AdminNext]_vars

\* Completion payloads: a booking, a booking whose name is null and whose
\* email is empty, an update without and with old_timing, and an update
\* that lacks fields.
Thursday == "Thursday 1 PM"
BlankFields ==
    <<KV("name", None), KV("email", ""), KV("phone", Phone),
      KV("timing", Friday)>>
PayloadTexts ==
    { <<W("sure"), SP>> \o Tag(BOOKING_COMPLETE, FourFields),
      <<W("sure"), SP>> \o Tag(BOOKING_COMPLETE, BlankFields),
      <<W("sure"), SP>> \o Tag(UPDATE_COMPLETE, UpdateFields),
      <<W("sure"), SP>>
          \o Tag(UPDATE_COMPLETE, UpdateFields \o <<KV("old_timing", Thursday)>>),
      <<W("sure"), SP>> \o Tag(UPDATE_COMPLETE, <<KV("name", Alice)>>) }

PayloadNext == NextOver({"Thanks"}, Headers, PayloadTexts)

PayloadSpec == Init /\ [][PayloadNext]_vars

\* The offer to connect the user with the team, and the answers to it: an
\* agreement, an agreement with more words, a question.
ConnectOffer == <<W("shall i"), SP, W("connect you with our team")>>
OfferMessages == {"Yes", "yes please", "what services do you offer"}
OfferTexts == { ConnectOffer, <<W("sure")>> }

OfferNext == NextOver(OfferMessages, Headers, OfferTexts)

OfferSpec == Init /\ [][OfferNext]_vars

\* After a booking: the model announces the submission in its own words
\* before the marker, and the user answers with an acknowledgement or with
\* a question that has the letters of one ("booking" has "ok").
Announcement ==
    <<W("appointment request has been submitted successfully"), SP>>
        \o Tag(BOOKING_COMPLETE, FourFields)
BookingQuestion == "what does a booking cost"
AckMessages == {"Thanks", BookingQuestion}
AckTexts == { Announcement, <<W("sure")>> }

AckNext == NextOver(AckMessages, Headers, AckTexts)

AckSpec == Init /\ [][AckNext]_vars

\* Payloads with an object inside: right after the marker, after a word
\* that follows the marker, and in an update; and a payload without one.
NestedFields ==
    <<KV("name", Alice), KV("email", AliceMail), K("meta"), LB,
      KV("source", "web"), RB, KV("phone", Phone), KV("timing", Friday)>>
NestedTexts ==
    { <<W("sure"), SP>> \o Tag(BOOKING_COMPLETE, NestedFields),
      <<W("sure"), SP, BOOKING_COMPLETE, SP, W("json"), SP, LB>>
          \o NestedFields \o <<RB>>,
      <<W("sure"), SP>>
          \o Tag(UPDATE_COMPLETE,
                 <<K("meta"), LB, KV("source", "web"), RB>> \o UpdateFields),
      <<W("sure"), SP>> \o Tag(BOOKING_COMPLETE, FourFields) }

NestedNext == NextOver({"Thanks"}, Headers, NestedTexts)

NestedSpec == Init /\ [][NestedNext]_vars

\* Two clients, each with a session of its own, whose turns interleave:
\* a form tag and a complete booking.
PairHeaders == {"s1", "s2"}
PairTexts ==
    { <<W("sure"), SP>>
          \o Tag(FORM_UPDATE, <<KV("name", Alice), KV("email", AliceMail)>>),
      <<W("sure"), SP>> \o Tag(BOOKING_COMPLETE, FourFields) }

PairNext ==
    \/ \E header \in PairHeaders : Receive("Thanks", header)
    \/ Create
    \/ Fetch
    \/ \E outcome \in SearchOutcomes : Retrieve(outcome)
    \/ PromptError
    \/ \E text \in PairTexts : ModelAttempt("text", text)
    \/ ModelAttempt("raise", <<>>)
    \/ \E outcome \in StoreOutcomes : Dispatch(outcome)
    \/ Resume
    \/ Switch

PairSpec == Init /\ [][PairNext]_vars

\* The caller stops reading at the final event: the generator is closed at
\* its last yield (GeneratorExit, which 'except Exception' does not catch)
\* and the statements after the yield never run.
Close ==
    /\ pc = "yielded"
    /\ pc' = "done"
    /\ UNCHANGED <<appointment_sessions, objects, turns, session_id, session,
                   user_message, attempt, bot_response_full, context_string,
                   bot_entry, events, store_calls, search_calls, model_calls,
                   before, rival, admin, raised, now, time_slots>>

\* Requests whose caller may stop reading: a plain answer and a booking.
CloseTexts ==
    { <<W("sure")>>,
      <<W("sure"), SP>> \o Tag(BOOKING_COMPLETE, FourFields) }

CloseNext ==
    \/ NextOver({"Thanks"}, Headers, CloseTexts)
    \/ Close

CloseSpec == Init /\ [][CloseNext]_vars

\* The hours of a week pass between the requests.
Tick(weekday, hour) ==
    /\ pc \in {"idle", "done"}
    /\ now' = [weekday |-> weekday, hour |-> hour]
    /\ now' # now
    /\ UNCHANGED <<appointment_sessions, objects, turns, pc, session_id,
                   session, user_message, attempt, bot_response_full,
                   context_string, bot_entry, events, store_calls,
                   search_calls, model_calls, before, rival, admin, raised,
                   time_slots>>

ClockNext ==
    \/ NextOver({"Thanks"}, Headers, { <<W("sure")>> })
    \/ \E weekday \in Weekdays, hour \in Hours : Tick(weekday, hour)

ClockSpec == Init /\ [][ClockNext]_vars

----------------------------------------------------------------------------
\* Properties

\* The session object of the request in progress, or of the last request.
Current == objects[session]

\* The request has delivered its final event (and, at "done", has ended).
Answered == session # 0 /\ pc \in {"yielded", "done"}

\* The request's create-mode calls that returned success.
CreatedOk == {i \in DOMAIN store_calls :
                 ~store_calls[i].is_update /\ store_calls[i].success}

AllSlotsFilled(booking_details) ==
    \A key \in BookingKeys : Truthy(booking_details[key])
SomeSlotFilled(booking_details) ==
    \E key \in BookingKeys : Truthy(booking_details[key])

\* The tokens of a tag: a tag keyword, a brace, a JSON member.
TagTokens(text) ==
    {i \in DOMAIN text : text[i].k \in {"m", "{", "}", "kv"}}

\* C1: store_appointment_and_send_emails is called in create mode only
\* when, at the moment of the call, all four booking_details slots of the
\* session are populated.
C1_CreateOnlyWithAllSlots ==
    \A i \in DOMAIN store_calls :
        ~store_calls[i].is_update => AllSlotsFilled(store_calls[i].slots)

\* C2: after a turn whose create-mode call returned success, all four
\* booking_details slots of the session are None.
C2_SlotsResetAfterCreate ==
    (pc = "done" /\ session # 0 /\ CreatedOk # {})
        => Current.booking_details = EmptyDetails

\* C3: in every session, user_details is set if and only if
\* last_appointment_timing is set.
C3_ContactAndTimingTogether ==
    \A id \in DOMAIN appointment_sessions :
        LET sess == objects[appointment_sessions[id]]
        IN  (sess.user_details # NoDetails)
                <=> (sess.last_appointment_timing # None)

\* C4: user_details and last_appointment_timing change only in a turn whose
\* persistence call returned success; a turn whose call returned failure,
\* in create or in update mode, leaves both as they were.
C4_MemoryChangesOnlyOnSuccess ==
    (session # 0 /\ pc # "idle")
        => \/ /\ Current.user_details = before.user_details
              /\ Current.last_appointment_timing = before.last_appointment_timing
           \/ \E i \in DOMAIN store_calls : store_calls[i].success

\* C5: after a turn whose create-mode call returned success, user_details
\* is the payload's {name, email, phone} and last_appointment_timing is the
\* payload's timing.
C5_CreateSuccessKeepsPayload ==
    (Answered /\ CreatedOk # {})
        => LET payload == extract_booking_data(bot_response_full).data
           IN  /\ Current.user_details =
                    <<[name |-> payload["name"], email |-> payload["email"],
                       phone |-> payload["phone"]]>>
               /\ Current.last_appointment_timing = payload["timing"]

\* A turn has ended whose create-mode call returned success.
C5_Witness == pc = "done" /\ session # 0 /\ CreatedOk # {}

\* C6: a populated booking_details slot is never replaced by null or an
\* empty value by a FORM_UPDATE tag; it stays populated until a booking is
\* finalized.
C6_FilledSlotStaysFilled ==
    (session # 0 /\ pc # "idle" /\ CreatedOk = {})
        => \A key \in BookingKeys :
              Truthy(before.booking_details[key])
                  => Truthy(Current.booking_details[key])

\* C7: in a turn that starts with at least one booking_details slot
\* populated, match_documents is not called.
C7_NoSearchWhileSlotsFilled ==
    (session # 0 /\ pc # "idle" /\ SomeSlotFilled(before.booking_details))
        => search_calls = 0

\* C8: no bot text of a session's history contains a FORM_UPDATE:,
\* BOOKING_COMPLETE: or UPDATE_COMPLETE: tag or its JSON payload.
C8_HistoryHasNoTags ==
    \A o \in DOMAIN objects :
        \A i \in DOMAIN objects[o].history :
            TagTokens(objects[o].history[i].bot) = {}

\* C9: no event delivered to the caller contains a BOOKING_COMPLETE: or
\* UPDATE_COMPLETE: marker (with the JSON payload that follows it).
C9_EventsHaveNoMarker ==
    \A i \in DOMAIN events :
        /\ ~Contains(events[i].text, BOOKING_COMPLETE)
        /\ ~Contains(events[i].text, UPDATE_COMPLETE)

\* The terminal events of the request: a final response or an error.
TerminalEvents ==
    {i \in DOMAIN events :
        events[i].type = "error"
            \/ (events[i].type = "response" /\ events[i].is_final)}

\* C10: every turn with a non-blank message eventually emits exactly one
\* terminal event, whatever the retrieval, the model and the persistence
\* calls answer: it never has more than one, and once the request is
\* accepted the turn ends with exactly one.
C10_OneTerminalEvent ==
    /\ [](Cardinality(TerminalEvents) <= 1)
    /\ []((pc \notin {"idle", "done"})
            => <>(pc = "done" /\ Cardinality(TerminalEvents) = 1))

\* A turn with a non-blank message has ended after a failed store call.
C10_Witness ==
    /\ pc = "done"
    /\ user_message # ""
    /\ Cardinality(TerminalEvents) = 1
    /\ \E i \in DOMAIN store_calls : ~store_calls[i].success

\* C11: when a request carries no X-Session-ID header, the terminal
\* response event of its turn carries the id generated for it, however the
\* turn ends.
C11_FreshIdOnFinalEvent ==
    \A i \in DOMAIN events :
        (session_id \in Uuids /\ events[i].type = "response"
            /\ events[i].is_final)
            => events[i].session_id = session_id

\* C12: a request whose message is missing or blank after trimming gets the
\* error result at once and leaves the session map and every session as
\* they were; no retrieval, model or persistence call is made for it.
C12_BlankRequestTouchesNothing ==
    [][(turns' # turns /\ user_message' = "")
          => /\ pc' = "done"
             /\ events' = <<Yield(ErrorEvent("Message is required"), None)>>
             /\ appointment_sessions' = appointment_sessions
             /\ objects' = objects
             /\ search_calls' = 0
             /\ model_calls' = 0
             /\ store_calls' = <<>>]_vars

\* A blank request has been answered in a server that holds a session.
C12_Witness ==
    /\ pc = "done"
    /\ user_message = ""
    /\ turns > 0
    /\ events = <<Yield(ErrorEvent("Message is required"), None)>>
    /\ DOMAIN appointment_sessions # {}

\* The create-mode calls of the request.
CreateCalls == {i \in DOMAIN store_calls : ~store_calls[i].is_update}

\* The arguments of a call are the slots the session held at the call.
ArgsAreSlots(call) ==
    /\ call.name = call.slots["name"]
    /\ call.email = call.slots["email"]
    /\ call.phone = call.slots["phone"]
    /\ call.timing = call.slots["timing"]

\* The call dispatches the booking the session had recorded before the turn.
RecordedBefore(call) ==
    /\ before.user_details =
          <<[name |-> call.name, email |-> call.email, phone |-> call.phone]>>
    /\ before.last_appointment_timing = call.timing

\* C17: in a session where an earlier turn's FORM_UPDATE set phone, the turn
\* that completes the booking makes exactly one create-mode call, its four
\* arguments are the merged slot values, and no turn dispatches a booking
\* the session has already recorded.
C17_OneMergedDispatch ==
    (session # 0 /\ pc # "idle" /\ Truthy(before.booking_details["phone"]))
        => \A i \in CreateCalls :
              /\ Cardinality(CreateCalls) = 1
              /\ ArgsAreSlots(store_calls[i])
              /\ ~RecordedBefore(store_calls[i])

\* C18: in a session with empty history and empty slots, a turn whose
\* message is a booking request makes no match_documents call and leaves
\* the slots empty.
C18_BookingRequestNoSearch ==
    (/\ session # 0 /\ pc # "idle"
     /\ user_message = BookingRequest
     /\ before.history = <<>>
     /\ before.booking_details = EmptyDetails)
        => /\ search_calls = 0
           /\ Current.booking_details = EmptyDetails

\* The create-mode calls of the request that returned failure.
CreateFailed == {i \in CreateCalls : ~store_calls[i].success}

\* C15: when the create-mode persistence call fails, the turn emits exactly
\* one event, the final response with the 'appointment details received'
\* message, and booking_details, user_details and last_appointment_timing
\* are as they were before the call.
C15_CreateFailureKeepsSession ==
    (Answered /\ CreateFailed # {})
        => /\ Len(events) = 1
           /\ events[1].type = "response"
           /\ events[1].is_final
           /\ events[1].text[1] = W("appointment details received")
           /\ \A i \in CreateFailed :
                 Current.booking_details = store_calls[i].slots
           /\ Current.user_details = before.user_details
           /\ Current.last_appointment_timing = before.last_appointment_timing

\* A turn has ended whose create-mode call failed.
C15_Witness == pc = "done" /\ session # 0 /\ CreateFailed # {}

\* The text carries a BOOKING_COMPLETE tag whose JSON parses and has the
\* four required fields.
WellFormedBooking(text) ==
    LET match == TagSearch(text, BOOKING_COMPLETE, TRUE)
    IN  /\ match.found
        /\ JsonValid(Group1(text, match))
        /\ BookingKeys \subseteq DOMAIN json_loads(Group1(text, match))

\* The text carries the BOOKING_COMPLETE marker without such a payload:
\* the JSON is truncated or a required field is missing.
MalformedBooking(text) ==
    Contains(text, BOOKING_COMPLETE) /\ ~WellFormedBooking(text)

C19_AckAfterBookingNoSearch ==
    (/\ session # 0 /\ pc # "idle"
     /\ lower_message(user_message) = "thanks"
     /\ Len(before.history) = 1
     /\ before.user_details # NoDetails)
        => /\ search_calls = 0
           /\ store_calls = <<>>
           /\ pc = "done" => Len(Current.history) = 2

\* C20: a turn whose output carries a well-formed BOOKING_COMPLETE payload
\* with all four fields makes exactly one persistence call, in create mode;
\* no turn makes more than one persistence call.
C20_OnePersistenceCall ==
    /\ Len(store_calls) <= 1
    /\ (Answered /\ WellFormedBooking(bot_response_full))
          => /\ Len(store_calls) = 1
             /\ ~store_calls[1].is_update

\* A turn has ended whose output carried a well-formed booking payload.
C20_Witness ==
    /\ pc = "done"
    /\ session # 0
    /\ WellFormedBooking(bot_response_full)
    /\ Len(store_calls) = 1

\* The request has fetched its session and has not yet appended its turn
\* to the history; it has read the session (the history, at the gate).
Working(locals) == locals.pc \in {"gate", "model", "dispatch", "yielded"}
HasRead(locals) == locals.pc \in {"model", "dispatch", "yielded"}

\* C13: turns of one session id are processed one after another: no request
\* reads or writes a session while another request of the same session id
\* is between its fetch of the session and its history entry.
C13_TurnsOfASessionInSequence ==
    ~(/\ session_id # None
      /\ session_id = rival.session_id
      /\ Working(Locals)
      /\ Working(rival)
      /\ HasRead(Locals) \/ HasRead(rival))

\* C14: create-or-fetch is atomic: every request that has fetched a session
\* works on the record appointment_sessions holds for its session id, so
\* two requests of one id work on the same record.
C14_OneRecordPerSessionId ==
    \A locals \in {Locals, rival} :
        locals.session # 0
            => /\ locals.session_id \in DOMAIN appointment_sessions
               /\ appointment_sessions[locals.session_id] = locals.session

\* The payload update_booking_details reads from the text: the JSON of the
\* first FORM_UPDATE tag, the empty dict when there is no tag or json.loads
\* rejects it.
FormPayload(text) ==
    LET match == TagSearch(text, FORM_UPDATE, FALSE)
    IN  IF match.found /\ JsonValid(Group1(text, match))
        THEN json_loads(Group1(text, match))
        ELSE EmptyDict

\* C21: the booking_details of every session has exactly the keys name,
\* email, phone and timing; a key of a FORM_UPDATE payload other than these
\* four is never added.
C21_SlotsHaveFourKeys ==
    \A o \in DOMAIN objects : DOMAIN objects[o].booking_details = BookingKeys

\* A turn has ended whose FORM_UPDATE payload had a key outside the four
\* and a name that was merged.
C21_Witness ==
    /\ pc = "done"
    /\ session # 0
    /\ DOMAIN FormPayload(bot_response_full) \ BookingKeys # {}
    /\ Current.booking_details["name"] = Alice

\* The turn started with empty slots and the model's output carries a
\* FORM_UPDATE tag whose payload is a name and an email.
NameAndEmailTurn ==
    /\ Answered
    /\ before.booking_details = EmptyDetails
    /\ DOMAIN FormPayload(bot_response_full) = {"name", "email"}
    /\ Truthy(FormPayload(bot_response_full)["name"])
    /\ Truthy(FormPayload(bot_response_full)["email"])

\* The slots hold the payload's name and email, and no phone and timing.
NameAndEmailMerged ==
    /\ Current.booking_details["name"] = FormPayload(bot_response_full)["name"]
    /\ Current.booking_details["email"] = FormPayload(bot_response_full)["email"]
    /\ Current.booking_details["phone"] = None
    /\ Current.booking_details["timing"] = None

C23_ClearAndCount ==
    /\ (admin.op = "clear" /\ admin.session_id # None)
          => IF admin.session_id \in DOMAIN admin.map_before
             THEN /\ admin.success
                  /\ admin.map_after
                        = Without(admin.map_before, admin.session_id)
             ELSE /\ ~admin.success
                  /\ admin.map_after = admin.map_before
    /\ (admin.op = "clear" /\ admin.message = "All sessions cleared")
          => admin.map_after = NoSessions
    /\ admin.op = "debug"
          => admin.count = Cardinality(DOMAIN admin.map_after)

C25_ExhaustedRetriesApologise ==
    (raised = max_retries)
        => /\ pc \in {"yielded", "done"}
           /\ Len(events) = 1
           /\ events[1].type = "response"
           /\ events[1].is_final
           /\ events[1].text = fallback_response
           /\ store_calls = <<>>
           /\ bot_response_full = <<>>
           /\ Current.booking_details = before.booking_details
           /\ Current.user_details = before.user_details
           /\ Current.last_appointment_timing = before.last_appointment_timing
           /\ Current.history =
                IF pc = "done"
                THEN Append(before.history,
                            [user |-> user_message, bot |-> fallback_response])
                ELSE before.history

\* A turn of a session with slots filled has ended after three calls that
\* raised.
C25_Witness ==
    /\ pc = "done"
    /\ raised = max_retries
    /\ SomeSlotFilled(before.booking_details)

\* The text before the first BOOKING_COMPLETE: or UPDATE_COMPLETE: marker,
\* all of the text when it has no marker.
HasMarker(text) ==
    Contains(text, BOOKING_COMPLETE) \/ Contains(text, UPDATE_COMPLETE)
BeforeMarker(text) ==
    LET at == {i \in DOMAIN text : text[i] \in {BOOKING_COMPLETE, UPDATE_COMPLETE}}
    IN  IF at = {} THEN text ELSE SubSeq(text, 1, Min(at) - 1)

\* The partial events of the request, and their texts joined in the order
\* of delivery.
PartialEvents ==
    {i \in DOMAIN events : events[i].type = "response" /\ ~events[i].is_final}
Forwarded ==
    LET upto[i \in 0..Len(events)] ==
            IF i = 0 THEN <<>>
            ELSE IF i \in PartialEvents THEN upto[i - 1] \o events[i].text
            ELSE upto[i - 1]
    IN  upto[Len(events)]

\* C26: the text the model streams before any control marker reaches the
\* caller as partial events, in the order produced and before the final
\* event; nothing after the marker is forwarded.
C26_FragmentsForwardedInOrder ==
    (Answered /\ strip(bot_response_full) # <<>>)
        => /\ Forwarded = BeforeMarker(bot_response_full)
           /\ \A i \in PartialEvents : \A j \in TerminalEvents : i < j

\* C27: on a tag-parse failure (a marker in the output and no payload that
\* can be dispatched) the final event's text is the text before the marker
\* followed by the static technical-issue message, and the turn's history
\* entry holds the text before the marker only.
C27_FailureKeepsPrefix ==
    (Answered /\ HasMarker(bot_response_full) /\ store_calls = <<>>)
        => /\ \E is_update_attempt \in BOOLEAN :
                 events[Len(events)].text =
                    strip(BeforeMarker(bot_response_full)) \o <<SP>>
                        \o error_message(is_update_attempt)
           /\ pc = "done"
                => Current.history[Len(Current.history)].bot
                      = strip(BeforeMarker(bot_response_full))

\* The JSON of the UPDATE_COMPLETE tag of the text, the empty dict when
\* there is none or it does not parse.
UpdatePayload(text) ==
    LET match == TagSearch(text, UPDATE_COMPLETE, TRUE)
    IN  IF match.found /\ JsonValid(Group1(text, match))
        THEN json_loads(Group1(text, match))
        ELSE EmptyDict

\* The update-mode calls of the request.
UpdateCalls == {i \in DOMAIN store_calls : store_calls[i].is_update}

\* C28: an UPDATE_COMPLETE payload leads to a persistence call only if it
\* has name, email, phone and new_timing; the call is made in update mode
\* with the payload's values, and its old timing is the payload's
\* old_timing when present and otherwise the session's
\* last_appointment_timing.
C28_UpdateCallFromPayload ==
    LET payload == UpdatePayload(bot_response_full)
    IN  /\ \A i \in UpdateCalls :
              /\ UpdateKeys \subseteq DOMAIN payload
              /\ store_calls[i].name = payload["name"]
              /\ store_calls[i].email = payload["email"]
              /\ store_calls[i].phone = payload["phone"]
              /\ store_calls[i].timing = payload["new_timing"]
              /\ store_calls[i].old_timing =
                    IF "old_timing" \in DOMAIN payload
                    THEN payload["old_timing"]
                    ELSE before.last_appointment_timing
        /\ (Answered /\ Contains(bot_response_full, UPDATE_COMPLETE)
              /\ ~Contains(bot_response_full, BOOKING_COMPLETE))
              => IF UpdateKeys \subseteq DOMAIN payload
                 THEN Len(store_calls) = 1 /\ UpdateCalls = {1}
                 ELSE store_calls = <<>>

\* A turn of a session with a recorded booking has ended with an update
\* call whose payload had no old_timing.
C28_Witness ==
    /\ pc = "done"
    /\ UpdateCalls # {}
    /\ "old_timing" \notin DOMAIN UpdatePayload(bot_response_full)
    /\ before.last_appointment_timing # None

\* C29: every create-mode persistence call is made with four non-empty
\* arguments; a BOOKING_COMPLETE payload with a null or empty field never
\* reaches store_appointment_and_send_emails.
C29_CreateArgsNonEmpty ==
    \A i \in CreateCalls :
        /\ Truthy(store_calls[i].name)
        /\ Truthy(store_calls[i].email)
        /\ Truthy(store_calls[i].phone)
        /\ Truthy(store_calls[i].timing)

\* The last bot text of the history the request found offered to connect
\* the user with the team, and the message is one of the affirmative tokens.
AgreedToConnect ==
    /\ session # 0
    /\ pc # "idle"
    /\ before.history # <<>>
    /\ InLower(LastBot(before.history), "connect you with our team")
    /\ lower_message(user_message) \in affirmative_messages

\* C30: when the last bot message of the history offered to connect the
\* user with the team and the user's message is an affirmative token,
\* match_documents is not called in that turn.
C30_AgreementSkipsSearch ==
    AgreedToConnect => search_calls = 0

\* Such a turn has ended after a turn that did search.
C30_Witness ==
    /\ AgreedToConnect
    /\ pc = "done"
    /\ user_message = "Yes"
    /\ model_calls > 0

\* The request found a session with a recorded booking whose last bot text
\* announces a completed booking or update, and no booking in progress.
AfterCompletion ==
    /\ session # 0
    /\ pc \in {"model", "dispatch", "yielded", "done"}
    /\ before.user_details # NoDetails
    /\ ~booking_in_progress(before.history)
    /\ \/ InLower(LastBot(before.history),
                  "appointment request has been submitted successfully")
       \/ InLower(LastBot(before.history),
                  "appointment timing has been updated successfully")

\* C31: the acknowledgement rule suppresses retrieval only when the message
\* is itself an entry of the fixed vocabulary; a longer question that merely
\* contains one of its words still calls match_documents.
C31_OnlyAcknowledgementsSkipSearch ==
    (AfterCompletion /\ lower_message(user_message) \notin casual_messages)
        => search_calls = 1

\* The first control marker of the text, the first "{" after it and the
\* "}" that matches that "{" (0 when there is none).
FirstMarkerAt(text) ==
    Min({i \in DOMAIN text : text[i] \in {BOOKING_COMPLETE, UPDATE_COMPLETE}})
FirstOpenAfterMarker(text) == FirstAfter(text, FirstMarkerAt(text), LB)
MatchingClose(text) ==
    IF FirstOpenAfterMarker(text) = 0 THEN 0
    ELSE brace_scan(text, FirstOpenAfterMarker(text))

\* The marker of the text is followed by a JSON object with an object
\* inside.
NestedPayload(text) ==
    /\ HasMarker(text)
    /\ MatchingClose(text) # 0
    /\ \E i \in (FirstOpenAfterMarker(text) + 1)..(MatchingClose(text) - 1) :
          text[i] = LB

\* C32: for an output whose control marker is followed by a JSON object
\* with nested braces, extract_booking_data returns the object that ends at
\* the brace matching the first opening brace, not the text cut at the
\* first closing brace.
C32_NestedObjectExtracted ==
    (Answered /\ NestedPayload(bot_response_full))
        => extract_booking_data(bot_response_full).data =
              json_loads(SubSeq(bot_response_full,
                                FirstOpenAfterMarker(bot_response_full),
                                MatchingClose(bot_response_full)))

\* match_documents has come back without documents, after an error or
\* without a match, and the model has not been called yet.
SearchFoundNothing ==
    /\ pc = "model"
    /\ search_calls = 1
    /\ model_calls = 0
    /\ context_string = NoContext

\* C33: when retrieval fails or returns no documents, the turn goes on to
\* the model call with the context 'No relevant information found.',
\* leaves the session as it was and emits no error event, and it ends with
\* one final response event.
C33_FailedSearchDegrades ==
    /\ [](SearchFoundNothing => (Current = before /\ events = <<>>))
    /\ [](search_calls > 0
            => \A i \in DOMAIN events : events[i].type # "error")
    /\ SearchFoundNothing
          ~> (/\ pc = "done"
              /\ Len(events) = 1
              /\ events[1].type = "response"
              /\ events[1].is_final)

\* A turn whose retrieval found nothing has reached the model call in a
\* session that has a history.
C33_Witness ==
    /\ SearchFoundNothing
    /\ before.history # <<>>

\* The weekday a slot falls on, at the given weekday of the clock.
SlotWeekday(slot, weekday) ==
    IF slot.day = "Today" THEN weekday
    ELSE CHOOSE d \in Weekdays : DayName(d) = slot.day

\* C34: for every weekday and hour of the clock, generate_time_slots returns
\* at most 6 slots, each at an hour from 9 to 19 and none on a Sunday; when
\* today is Sunday or the hour is 18 or later, every slot is on the next
\* working day (Monday after a Saturday evening).
C34_SlotsInWorkingHours ==
    LET slots == generate_time_slots(now.weekday, now.hour)
    IN  /\ Len(slots) <= 6
        /\ \A i \in DOMAIN slots :
              /\ slots[i].hour \in start_hour..(end_hour - 1)
              /\ SlotWeekday(slots[i], now.weekday) # 6
              /\ (now.weekday = 6 \/ now.hour >= 18)
                    => slots[i].day = DayName(NextWorkingDay(now.weekday))

\* A request on a Saturday evening has offered its slots in the prompt.
C34_Witness ==
    /\ pc = "model"
    /\ now.weekday = 5
    /\ now.hour >= 18
    /\ time_slots = generate_time_slots(now.weekday, now.hour)
    /\ Len(time_slots) = 6

\* C35: no final event delivered to the caller contains a FORM_UPDATE: tag
\* or its JSON payload, also when the output carries several tags, a
\* malformed one, or a tag together with a control marker.
C35_EventsHaveNoFormTag ==
    \A i \in DOMAIN events :
        (events[i].type = "response" /\ events[i].is_final)
            => ~Contains(events[i].text, FORM_UPDATE)

\* The request has emitted a final response event.
EmittedResponse ==
    \E i \in DOMAIN events : events[i].type = "response" /\ events[i].is_final

\* The history h continues the history g by n entries.
Extends(h, g, n) ==
    /\ Len(h) = Len(g) + n
    /\ SubSeq(h, 1, Len(g)) = g

C37_OtherSessionsUntouched ==
    [][\A id \in DOMAIN appointment_sessions :
          id # session_id =>
             /\ id \in DOMAIN appointment_sessions'
             /\ objects'[appointment_sessions'[id]]
                   = objects[appointment_sessions[id]]]_vars

\* A turn of one session has booked and ended while a turn of the other
\* session, which has a session object of its own, is under way.
C37_Witness ==
    /\ pc = "done"
    /\ session # 0
    /\ objects[session] # before
    /\ objects[session].user_details # NoDetails
    /\ rival.pc \notin {"idle", "done", "create", "fetch"}
    /\ rival.session_id # session_id
    /\ rival.session # session

\* C38: every final response event carries non-empty text, also in a turn
\* where the model returns only empty text on each of its three attempts
\* without raising.
C38_FinalTextNotEmpty ==
    \A i \in DOMAIN events :
        (events[i].type = "response" /\ events[i].is_final)
            => events[i].text # <<>>

\* C39: a turn's history entry is appended whether or not the caller keeps
\* reading the event stream: a turn that has ended after a successful
\* persistence call, with its session state updated, has its entry in the
\* history of its session.
C39_RecordedWhenCallerStops ==
    (/\ pc = "done"
     /\ session # 0
     /\ \E i \in DOMAIN store_calls : store_calls[i].success)
        => Extends(objects[session].history, before.history, 1)

====
